---- MODULE Spec2Model ----
(***************************************************************************)
(* Model of the typed API access layer of the Rapid Capsule mobile client: *)
(* the axios request interceptor, the response error interceptor with its  *)
(* token refresh branch, the secure storage service that holds the two     *)
(* session tokens, and the repository error funnel.                        *)
(*                                                                         *)
(* Every logical call (one repository method invocation) owns a stack of   *)
(* request frames.  A frame is one pass of a request descriptor through    *)
(* the axios instance: request interceptor, transmission, response, and -  *)
(* on failure - the response error handler.  The error handler is an       *)
(* async function; each await in it is a separate step, so that steps of   *)
(* concurrently running calls interleave exactly at the awaits.  The       *)
(* refresh call the handler issues goes through the same axios instance    *)
(* and is a nested frame on the stack of the call that issued it.          *)
(***************************************************************************)
EXTENDS Integers, Sequences, FiniteSets, TLC

VARIABLES store, stack, result, stats, hist, lastRefreshed, probe, authStore,
          retryRun

vars ==
    <<store, stack, result, stats, hist, lastRefreshed, probe, authStore, retryRun>>

----------------------------------------------------------------------------
(* Bounds *)

\* number of distinct access tokens the server hands out on refresh
MaxTokens == 2
\* nesting depth of requests issued from inside response error handlers
MaxDepth == 3
\* per-call transmission counters saturate here
MaxCount == 3

\* responses a call's history records
MaxLog == 4

\* the logical calls (repository method invocations) of the UI layer; they
\* run concurrently
Calls == {"A", "B"}

----------------------------------------------------------------------------
(* Values *)

\* value of an absent key (SecureStore.getItemAsync gives null)
Null == "<null>"
\* an absent Authorization header
NoHeader == <<>>
\* the access token of the session that was current when the calls started
OldToken == "access-0"
\* the refresh token of that session
SessionRefreshToken == "refresh-0"
TokenNames == <<"access-1", "access-2", "access-3", "access-4">>
\* access tokens carried by successful refresh responses
IssuedTokens == {TokenNames[i] : i \in 1..MaxTokens}

\* response bodies either carry a message field or do not
NoMsg == "<undefined>"
ServerMsg == "Token expired"
RefreshServerMsg == "Refresh token revoked"

\* JavaScript truthiness of an optional string
Truthy(x) == x \notin {Null, NoMsg, ""}

\* a || b on optional strings
OrElse(a, b) == IF Truthy(a) THEN a ELSE b

\* `Bearer ${token}`
Bearer(t) == <<"Bearer", t>>

\* request paths; the repository prefixes its basePath '/patient', the
\* response handler posts to '/auth/refresh' directly
LoginUrl == "/patient/auth/login"
RepoRefreshUrl == "/patient/auth/refresh"
ProtocolRefreshUrl == "/auth/refresh"
ResourceUrl == "/patient/appointments"
CallUrls == {LoginUrl, RepoRefreshUrl, ResourceUrl}

\* url.includes(part) for the paths above
UrlIncludes(url, part) ==
    CASE part = "/auth/refresh" -> url \in {RepoRefreshUrl, ProtocolRefreshUrl}
      [] part = "/auth/login"   -> url = LoginUrl
      [] OTHER                  -> FALSE

\* statuses the server answers a failed request with
ErrStatuses == {401, 403, 404, 418, 422, 500}

\* the message field of an error body; the refresh endpoint words its own
ResponseMsgs(url) ==
    IF url = ProtocolRefreshUrl THEN {NoMsg, RefreshServerMsg} ELSE {NoMsg, ServerMsg}

----------------------------------------------------------------------------
(* Error taxonomy *)

NoError == [code |-> "<none>", message |-> NoMsg, statusCode |-> 0, data |-> NoMsg]

ApiError(code, message, statusCode, data) ==
    [code |-> code, message |-> message, statusCode |-> statusCode, data |-> data]

NetworkError(message) == ApiError("NETWORK_ERROR", message, 0, NoMsg)

TimeoutError(message) == ApiError("TIMEOUT_ERROR", message, 0, NoMsg)

UnauthorizedError(message, data) == ApiError("UNAUTHORIZED", message, 401, data)

ValidationError(message, data) == ApiError("VALIDATION_ERROR", message, 400, data)

\* an exception that is not an ApiError (thrown by a collaborator)
RawError == ApiError("<raw>", "collaborator failure", 0, NoMsg)

ApiErrorCode ==
    {"NETWORK_ERROR", "TIMEOUT_ERROR", "UNAUTHORIZED", "FORBIDDEN", "NOT_FOUND",
     "VALIDATION_ERROR", "SERVER_ERROR", "UNKNOWN_ERROR"}

\* a response body with field errors beside its message (a 422 of the
\* server); the other bodies are named by their message field alone
ValidationBody == "{message: 'reason is required', errors: {reason: 'required'}}"

\* (data as { message?: string })?.message
MessageOf(data) == IF data = ValidationBody THEN "reason is required" ELSE data

\* a switch that takes every 5xx status for a server error
ClassifyStatus_AnyServerStatus(status, data) ==
    CASE status = 403 ->
            ApiError("FORBIDDEN", OrElse(MessageOf(data), "Access forbidden"), 403, data)
      [] status = 404 ->
            ApiError("NOT_FOUND", OrElse(MessageOf(data), "Resource not found"), 404, data)
      [] status \in {400, 422} ->
            ValidationError(OrElse(MessageOf(data), "Validation failed"), data)
      [] status >= 500 ->
            ApiError("SERVER_ERROR",
                     OrElse(MessageOf(data), "Server error. Please try again later."),
                     status, data)
      [] OTHER ->
            ApiError("UNKNOWN_ERROR",
                     OrElse(MessageOf(data), "An unexpected error occurred"), status, data)

\* the switch on the status of a received response, all cases but 401;
\* data is the body of the response
ClassifyStatus(status, data) ==
    CASE status = 403 ->
            ApiError("FORBIDDEN", OrElse(MessageOf(data), "Access forbidden"), 403, data)
      [] status = 404 ->
            ApiError("NOT_FOUND", OrElse(MessageOf(data), "Resource not found"), 404, data)
      [] status \in {400, 422} ->
            ValidationError(OrElse(MessageOf(data), "Validation failed"), data)
      [] status \in {500, 502, 503, 504} ->
            ApiError("SERVER_ERROR",
                     OrElse(MessageOf(data), "Server error. Please try again later."),
                     status, data)
      [] OTHER ->
            ApiError("UNKNOWN_ERROR",
                     OrElse(MessageOf(data), "An unexpected error occurred"), status, data)

\* what NetInfo.fetch() reports: isConnected and isInternetReachable are
\* booleans or null
NetInfoStates ==
    [isConnected : {"true", "false", "null"},
     isInternetReachable : {"true", "false", "null"}]

\* NetworkService.isConnected: state.isConnected ?? false, and
\* state.isInternetReachable ?? false
isConnected(state) ==
    /\ (IF state.isConnected = "null" THEN FALSE ELSE state.isConnected = "true")
    /\ (IF state.isInternetReachable = "null" THEN FALSE
        ELSE state.isInternetReachable = "true")

\* the answer of the connectivity oracle as the handler sees it
OracleAnswer(throws, state) ==
    IF throws THEN "throws" ELSE IF isConnected(state) THEN "online" ELSE "offline"

\* codes axios puts on a failure without a response
TransportCodes == {"ECONNABORTED", "ERR_NETWORK"}

\* error.code === 'ECONNABORTED' || error.message.includes('timeout')
IsTimeoutSignal(code, mentionsTimeout) == code = "ECONNABORTED" \/ mentionsTimeout

\* a no-response branch that looks at the transport signal before it asks
\* the oracle
ClassifyNoResponse_TimeoutFirst(oracle, timeout) ==
    CASE oracle = "throws" -> RawError
      [] timeout -> TimeoutError("Request timeout. Please try again.")
      [] oracle = "offline" ->
            NetworkError("No internet connection. Please check your network settings.")
      [] OTHER -> NetworkError("Network error occurred. Please try again.")

\* the no-response branch, once the connectivity oracle has answered
ClassifyNoResponse(oracle, timeout) ==
    CASE oracle = "throws" -> RawError
      [] oracle = "offline" ->
            NetworkError("No internet connection. Please check your network settings.")
      [] timeout -> TimeoutError("Request timeout. Please try again.")
      [] OTHER -> NetworkError("Network error occurred. Please try again.")

\* a funnel that rethrows whatever it caught
handleError_PassingThrough(error) == error

\* a funnel that wraps whatever it caught
handleError_WrappingEverything(error) ==
    ApiError("UNKNOWN_ERROR", "An unexpected error occurred", 0, NoMsg)

\* BaseRepository.handleError
handleError(error) ==
    IF error.code \in ApiErrorCode
    THEN error
    ELSE ApiError("UNKNOWN_ERROR", "An unexpected error occurred", 0, NoMsg)

----------------------------------------------------------------------------
(* Request frames *)

\* a request descriptor entering the axios instance
Frame(url) ==
    [url |-> url, retry |-> FALSE, auth |-> NoHeader, seen |-> Null, pc |-> "req",
     status |-> 0, msg |-> NoMsg, timeout |-> FALSE, tok |-> Null, rerr |-> NoError]

NoResult == [kind |-> "none", error |-> NoError]

NoStats == [trans |-> 0, refresh |-> 0, retry |-> 0]

\* what a logical call has done so far: its path, the responses it received,
\* the message of the first error body, the outcome of its refresh, the
\* token it stored, the Authorization header of its retry, the removals it
\* performed, and the answer of the connectivity oracle and the transport
\* signal of its last failure without a response
NoHist(url) ==
    [url |-> url, log |-> <<>>, msg |-> NoMsg, rout |-> "none", rcode |-> "<none>",
     wrote |-> Null, retryAuth |-> NoHeader, cleared |-> "none",
     oracle |-> "none", timeout |-> FALSE]

\* the responses a call received, in order: the status, 200 for a success,
\* 0 for no response
Logged(h, status, msg) ==
    IF Len(h.log) < MaxLog
    THEN [h EXCEPT !.log = Append(@, status), !.msg = IF h.log = <<>> THEN msg ELSE @]
    ELSE h

Inc(n) == IF n < MaxCount THEN n + 1 ELSE n

Running(c) == stack[c] # <<>>

Top(c) == stack[c][Len(stack[c])]

At(c, pc) == Running(c) /\ Top(c).pc = pc

SetTop(c, f) == [stack EXCEPT ![c][Len(stack[c])] = f]

\* outcomes of a finished frame
Success(tok) == [ok |-> TRUE, tok |-> tok, error |-> NoError]

Failure(error) == [ok |-> FALSE, tok |-> Null, error |-> error]

----------------------------------------------------------------------------
(* secureStorageService: get returns null when the platform store fails,   *)
(* remove swallows a platform failure, set rethrows it                     *)

\* an exception of the platform store that reaches the caller of get()
Thrown == "<throws>"

\* a get() that lets the failure of the platform store through
StorageGet_Rethrowing(key, ok) == IF ok THEN store[key] ELSE Thrown

StorageGet(key, ok) == IF ok THEN store[key] ELSE Null

StorageRemove(key, ok) == IF ok THEN [store EXCEPT ![key] = Null] ELSE store

\* a remove() that lets the failure of the platform store through
RemoveRaises_Rethrowing(ok) == ~ok

\* whether remove() raises to its caller: it catches the failure and logs it
RemoveRaises(ok) == FALSE

\* a set() that keeps a refreshed access token the store already holds
StorageSet_FirstWriterWins(key, value, ok) ==
    IF ok /\ store[key] \notin IssuedTokens THEN [store EXCEPT ![key] = value] ELSE store

StorageSet(key, value, ok) == IF ok THEN [store EXCEPT ![key] = value] ELSE store

----------------------------------------------------------------------------
(* Pure parts of the interceptors *)

\* a request interceptor that keeps a header the descriptor already has
DecoratedAuth_KeepingExistingHeader(accessToken, auth) ==
    IF auth # NoHeader THEN auth
    ELSE IF Truthy(accessToken) THEN Bearer(accessToken) ELSE auth

\* a request interceptor that sends no header when it reads no token
DecoratedAuth_DroppingHeader(accessToken, auth) ==
    IF Truthy(accessToken) THEN Bearer(accessToken) ELSE NoHeader

\* request interceptor: the header after the access token has been read
DecoratedAuth(accessToken, auth) ==
    IF Truthy(accessToken) THEN Bearer(accessToken) ELSE auth

\* a guard that forgets the retry marker
ShouldRefresh_IgnoringRetryMarker(f) ==
    /\ ~UrlIncludes(f.url, "/auth/refresh")
    /\ ~UrlIncludes(f.url, "/auth/login")

\* a guard that only looks at the retry marker
ShouldRefresh_IgnoringAuthUrls(f) == ~f.retry

\* the guard of the 401 case
ShouldRefresh(f) ==
    /\ ~f.retry
    /\ ~UrlIncludes(f.url, "/auth/refresh")
    /\ ~UrlIncludes(f.url, "/auth/login")

\* a handler that lets the error of the refresh call through
ThrownUnauthorized_RethrowingRefreshError(f) ==
    IF f.rerr # NoError
    THEN f.rerr
    ELSE UnauthorizedError(OrElse(f.msg, "Unauthorized. Please login again."), f.msg)

\* a handler that words its error after the body of the refresh response
ThrownUnauthorized_WithRefreshMessage(f) ==
    UnauthorizedError(OrElse(OrElse(f.rerr.data, f.msg),
                             "Unauthorized. Please login again."), f.msg)

\* the error thrown at the end of the 401 case
ThrownUnauthorized(f) ==
    UnauthorizedError(OrElse(f.msg, "Unauthorized. Please login again."), f.msg)

\* a retry whose descriptor is not given the new token
RetryFrame_KeepingHeader(f) ==
    [f EXCEPT !.pc = "req", !.tok = Null, !.status = 0, !.msg = NoMsg]

\* a retry whose descriptor has lost the retry marker
RetryFrame_ClearingMarker(f) ==
    [f EXCEPT !.pc = "req", !.auth = Bearer(f.tok), !.tok = Null,
              !.status = 0, !.msg = NoMsg, !.retry = FALSE]

\* the request handed to axiosInstance.request after a successful refresh
RetryFrame(f) ==
    [f EXCEPT !.pc = "req", !.auth = Bearer(f.tok), !.tok = Null,
              !.status = 0, !.msg = NoMsg]

\* a handler that re-issues the request without storing the new token first
AfterRefresh_RetryingBeforeStore(f, out) ==
    IF out.ok
    THEN IF Truthy(out.tok)
         THEN RetryFrame([f EXCEPT !.tok = out.tok])
         ELSE [f EXCEPT !.pc = "clearAccess"]
    ELSE [f EXCEPT !.pc = "catchAccess", !.rerr = out.error]

\* a handler that stores and retries whatever the refresh response carries
AfterRefresh_TrustingAnyBody(f, out) ==
    IF out.ok
    THEN [f EXCEPT !.pc = "setToken", !.tok = out.tok]
    ELSE [f EXCEPT !.pc = "catchAccess", !.rerr = out.error]

\* the handler that awaited the refresh call continues with its outcome
AfterRefresh(f, out) ==
    IF out.ok
    THEN IF Truthy(out.tok)
         THEN [f EXCEPT !.pc = "setToken", !.tok = out.tok]
         ELSE [f EXCEPT !.pc = "clearAccess"]
    ELSE [f EXCEPT !.pc = "catchAccess", !.rerr = out.error]

RefreshOutcome(out) ==
    IF out.ok THEN (IF Truthy(out.tok) THEN "ok" ELSE "notoken") ELSE "failed"

\* a handler that awaits the retry inside its try block: the failure of the
\* retry is caught like a failure of the refresh
RetryOutcome_CaughtAsRefreshFailure(f, out) ==
    IF f.retry /\ ~out.ok /\ out.error.code # "UNAUTHORIZED"
    THEN Failure(UnauthorizedError("Unauthorized. Please login again.", NoMsg))
    ELSE out

\* `return axiosInstance.request(originalRequest)`: the promise of the retry
\* is returned without await, so its outcome is the outcome of the handler
\* and a rejection does not reach the catch block
RetryOutcome(f, out) == out

\* the top frame of call c settles with outcome out; h is the call's history
\* after the step.  The outermost frame settles the repository method
\* (ApiClient returns response.data, BaseRepository funnels the error);
\* a nested frame resumes the handler that awaits it.
Finish(c, out, h) ==
    IF Len(stack[c]) = 1
    THEN /\ stack' = [stack EXCEPT ![c] = <<>>]
         /\ result' = [result EXCEPT ![c] =
                          LET settled == RetryOutcome(Top(c), out)
                          IN IF settled.ok THEN [kind |-> "ok", error |-> NoError]
                             ELSE [kind |-> "err",
                                   error |-> handleError(settled.error)]]
         /\ hist' = [hist EXCEPT ![c] = h]
    ELSE LET n == Len(stack[c])
             outer == stack[c][n - 1]
         IN /\ stack' = [stack EXCEPT ![c] =
                            Append(SubSeq(stack[c], 1, n - 2), AfterRefresh(outer, out))]
            /\ result' = result
            /\ hist' = [hist EXCEPT ![c] =
                           [h EXCEPT !.rout = RefreshOutcome(out), !.rcode = out.error.code]]

----------------------------------------------------------------------------
(* The auth store (zustand) and its two asynchronous actions *)

\* the user the persist middleware restores
PersistedUser == "patient-1"

\* the state of the store as created: its four fields, the position of
\* initialize() and of logout(), and the tokens initialize() has read
NoSession ==
    [isAuthenticated |-> FALSE, user |-> Null, isLoading |-> FALSE,
     isInitialized |-> FALSE, initialize |-> "idle", logout |-> "idle",
     accessToken |-> Null, refreshToken |-> Null]

\* the store at startup: as created, or with the persisted user and
\* isAuthenticated restored
AuthStates ==
    {NoSession, [NoSession EXCEPT !.isAuthenticated = TRUE, !.user = PersistedUser]}

\* an initialize() that looks at the access token only
TokensExist_AccessTokenOnly(accessToken, refreshToken) == Truthy(accessToken)

\* if (accessToken && refreshToken)
TokensExist(accessToken, refreshToken) == Truthy(accessToken) /\ Truthy(refreshToken)

----------------------------------------------------------------------------
(* The retry utility *)

\* an option the caller left out
Undefined == -1

\* the largest maxRetries a caller passes
MaxRetriesGiven == 2

\* the options callers pass to retry(); delays in milliseconds
RetryOptions ==
    [maxRetries : {Undefined} \cup 0..MaxRetriesGiven,
     initialDelay : {Undefined, 500, 20000},
     maxDelay : {Undefined, 4000},
     backoffMultiplier : {Undefined, 1, 3}]

\* const { maxRetries = 3, initialDelay = 1000, maxDelay = 10000,
\*         backoffMultiplier = 2 } = options
WithDefaults(options) ==
    [maxRetries |-> IF options.maxRetries = Undefined THEN 3 ELSE options.maxRetries,
     initialDelay |-> IF options.initialDelay = Undefined
                      THEN 1000 ELSE options.initialDelay,
     maxDelay |-> IF options.maxDelay = Undefined THEN 10000 ELSE options.maxDelay,
     backoffMultiplier |-> IF options.backoffMultiplier = Undefined
                           THEN 2 ELSE options.backoffMultiplier]

\* Math.min
Min(a, b) == IF a < b THEN a ELSE b

\* let delay = initialDelay
FirstDelay(o) == o.initialDelay

\* delay = Math.min(delay * backoffMultiplier, maxDelay)
NextDelay(delay, o) == Min(delay * o.backoffMultiplier, o.maxDelay)

\* a run of retry(): its options, the loop counter, the current delay, the
\* number of invocations of fn, the delays slept, the attempt whose error
\* is lastError (0: none yet), and how it settled: the attempt whose value
\* it returned or whose error it raised
NoRun ==
    [phase |-> "none",
     options |-> [maxRetries |-> 0, initialDelay |-> 0, maxDelay |-> 0,
                  backoffMultiplier |-> 0],
     attempt |-> 0, delay |-> 0, calls |-> 0, waits |-> <<>>, lastError |-> 0,
     settled |-> 0]

----------------------------------------------------------------------------
(* The two pipeline stages as functions of their input *)

\* env.apiBaseUrl and env.apiTimeout
ApiBaseUrl == "https://api.rapidcapsule.com"
ApiTimeout == 30000

\* an undefined baseURL and an undefined timeout of a request config
Unset == "<unset>"
NoTimeout == -1

\* request configs handed to the request interceptor: the base endpoint
\* undefined, empty or the caller's own; the timeout undefined, 0 (axios:
\* no timeout) or the caller's own
ProbeConfigs ==
    [baseURL : {Unset, "", "https://staging.rapidcapsule.com"},
     timeout : {NoTimeout, 0, 5000},
     auth : {NoHeader, Bearer(OldToken)}]

NoConfig == [baseURL |-> Unset, timeout |-> NoTimeout, auth |-> NoHeader]

\* statuses and bodies of the responses handed to the switch
ProbeStatuses == {304, 400, 403, 404, 409, 418, 422, 429, 500, 501, 502, 503, 504}
ProbeBodies == {NoMsg, ServerMsg, ValidationBody}

\* what the request interceptor hands to console.log: nothing, or one entry
\* with the baseURL and the headers of the config
NoLog == <<>>

\* console.log('[API Request] ...', {baseURL, headers: config.headers, ...})
LogEntry(config) == <<[baseURL |-> config.baseURL, headers |-> config.auth]>>

\* requestInterceptor: the config it returns for the value get() gave, or
\* the exception it lets through, and what it logged; the entry is written
\* after the Authorization header has been set
requestInterceptor(config, accessToken, enableNetworkLogging) ==
    LET defaulted == [config EXCEPT
                        !.baseURL = IF @ \in {Unset, ""} THEN ApiBaseUrl ELSE @,
                        !.timeout = IF @ \in {NoTimeout, 0} THEN ApiTimeout ELSE @]
        decorated == [defaulted EXCEPT !.auth = DecoratedAuth(accessToken, @)]
    IN IF accessToken = Thrown
       THEN [raised |-> TRUE, config |-> defaulted, logged |-> NoLog]
       ELSE [raised |-> FALSE, config |-> decorated,
             logged |-> IF enableNetworkLogging THEN LogEntry(decorated) ELSE NoLog]

\* errors a repository helper catches: what the response stage throws for
\* a status or for no response, and an exception that is no ApiError
CaughtErrors ==
    {ClassifyStatus(status, data) : status \in ProbeStatuses, data \in ProbeBodies}
    \cup {UnauthorizedError(OrElse(msg, "Unauthorized. Please login again."), msg) :
             msg \in {NoMsg, ServerMsg}}
    \cup {ClassifyNoResponse(OracleAnswer(throws, state), timeout) :
             throws \in BOOLEAN, state \in NetInfoStates, timeout \in BOOLEAN}
    \cup {RawError}

\* an input of a stage, and what the stage made of it
NoProbe ==
    [stage |-> "none", step |-> 0, status |-> 0, data |-> NoMsg,
     thrown |-> NoError, again |-> NoError,
     config |-> NoConfig, sent |-> NoConfig, raised |-> FALSE,
     logging |-> FALSE, token |-> Null, logged |-> NoLog,
     other |-> Null, loggedOther |-> NoLog]

StageInit ==
    /\ store \in {[access_token |-> OldToken, refresh_token |-> SessionRefreshToken],
                  [access_token |-> Null, refresh_token |-> Null]}
    /\ stack = [c \in Calls |-> <<>>]
    /\ hist = [c \in Calls |-> NoHist(ResourceUrl)]
    /\ result = [c \in Calls |-> NoResult]
    /\ stats = [c \in Calls |-> NoStats]
    /\ lastRefreshed = Null
    /\ authStore = NoSession
    /\ retryRun = NoRun
    /\ \/ \E status \in ProbeStatuses, data \in ProbeBodies :
              probe = [NoProbe EXCEPT !.stage = "response", !.status = status,
                                      !.data = data]
       \/ \E error \in CaughtErrors :
              probe = [NoProbe EXCEPT !.stage = "repository", !.thrown = error]
       \/ \E config \in ProbeConfigs, logging \in BOOLEAN :
              probe = [NoProbe EXCEPT !.stage = "request", !.config = config,
                                      !.logging = logging]

\* the response error handler classifies the response, and classifies the
\* same response again
Classify ==
    /\ probe.stage = "response"
    /\ probe.step < 2
    /\ probe' = IF probe.step = 0
                THEN [probe EXCEPT !.step = 1,
                                   !.thrown = ClassifyStatus(probe.status, probe.data)]
                ELSE [probe EXCEPT !.step = 2,
                                   !.again = ClassifyStatus(probe.status, probe.data)]
    /\ UNCHANGED <<store, stack, result, stats, hist, lastRefreshed, authStore, retryRun>>

\* the request interceptor decorates the config; beside it, the same config
\* is decorated with another access token in the store
Decorate ==
    /\ probe.stage = "request"
    /\ probe.step = 0
    /\ \E ok \in BOOLEAN, other \in IssuedTokens :
         LET accessToken == StorageGet("access_token", ok)
             out == requestInterceptor(probe.config, accessToken, probe.logging)
             twin == requestInterceptor(probe.config, other, probe.logging)
         IN probe' = [probe EXCEPT !.step = 1, !.sent = out.config,
                                   !.raised = out.raised, !.token = accessToken,
                                   !.logged = out.logged, !.other = other,
                                   !.loggedOther = twin.logged]
    /\ UNCHANGED <<store, stack, result, stats, hist, lastRefreshed, authStore, retryRun>>

\* the catch block of a BaseRepository helper funnels the error it caught
Funnel ==
    /\ probe.stage = "repository"
    /\ probe.step = 0
    /\ probe' = [probe EXCEPT !.step = 1, !.again = handleError(probe.thrown)]
    /\ UNCHANGED <<store, stack, result, stats, hist, lastRefreshed, authStore, retryRun>>

StageNext == Classify \/ Decorate \/ Funnel

StageSpec == StageInit /\ [][StageNext]_vars

----------------------------------------------------------------------------
(* Steps *)

Init ==
    /\ store \in {[access_token |-> OldToken, refresh_token |-> SessionRefreshToken],
                  [access_token |-> Null, refresh_token |-> Null]}
    /\ \E url \in [Calls -> CallUrls] :
         /\ stack = [c \in Calls |-> <<Frame(url[c])>>]
         /\ hist = [c \in Calls |-> NoHist(url[c])]
    /\ result = [c \in Calls |-> NoResult]
    /\ stats = [c \in Calls |-> NoStats]
    /\ lastRefreshed = Null
    /\ probe = NoProbe
    /\ authStore = NoSession
    /\ retryRun = NoRun

\* requestInterceptor resumes after reading the access token, and axios
\* transmits the decorated request
RequestInterceptor(c) ==
    /\ At(c, "req")
    /\ \E ok \in BOOLEAN :
         LET f == Top(c)
             accessToken == StorageGet("access_token", ok)
             auth == DecoratedAuth(accessToken, f.auth)
         IN /\ stack' = SetTop(c, [f EXCEPT !.auth = auth, !.seen = accessToken,
                                              !.pc = "sent"])
            /\ stats' = [stats EXCEPT
                           ![c].trans = Inc(@),
                           ![c].refresh = IF f.url = ProtocolRefreshUrl THEN Inc(@) ELSE @,
                           ![c].retry = IF f.retry THEN Inc(@) ELSE @]
            /\ hist' = [hist EXCEPT ![c].retryAuth = IF f.retry THEN auth ELSE @]
    /\ UNCHANGED <<store, result, lastRefreshed, probe, authStore, retryRun>>

\* a 2xx response: responseInterceptorSuccess passes it through and the
\* repository method hands its body to the caller ({success: true, data});
\* neither stores anything, also not the tokens in the body of a login
\* response.  The access token of the refresh response that arrived last
\* is remembered.
RespondSuccess(c) ==
    /\ At(c, "sent")
    /\ \E tok \in (IF Top(c).url = ProtocolRefreshUrl
                   THEN IssuedTokens \cup {Null} ELSE {Null}) :
         /\ Finish(c, Success(tok), Logged(hist[c], 200, NoMsg))
         /\ lastRefreshed' = IF Truthy(tok) THEN tok ELSE lastRefreshed
    /\ UNCHANGED <<store, stats, probe, authStore, retryRun>>

\* a switch that also takes 403 for an expired token
EntersUnauthorizedCase_WithForbidden(status) == status \in {401, 403}

\* case 401 of the switch on the status
EntersUnauthorizedCase(status) == status = 401

\* a handler that leaves the access token in place when the guard fails
AfterGuardFails_SkippingAccessToken(f) == [f EXCEPT !.pc = "clearRefresh"]

\* a 401 the guard keeps out of the refresh protocol falls through to the
\* removals at the end of the case
AfterGuardFails(f) == [f EXCEPT !.pc = "clearAccess"]

\* a response with an error status enters the response error handler, which
\* runs up to its first await
RespondStatus(c) ==
    /\ At(c, "sent")
    /\ \E status \in ErrStatuses, msg \in ResponseMsgs(Top(c).url) :
         LET f == [Top(c) EXCEPT !.status = status, !.msg = msg, !.seen = Null]
         IN IF EntersUnauthorizedCase(status)
            THEN /\ stack' = SetTop(c, IF ShouldRefresh(f)
                                       THEN [f EXCEPT !.retry = TRUE,
                                                      !.pc = "getRefreshToken"]
                                       ELSE AfterGuardFails(f))
                 /\ hist' = [hist EXCEPT ![c] = Logged(@, status, msg)]
                 /\ result' = result
            ELSE Finish(c, Failure(ClassifyStatus(status, msg)), Logged(hist[c], status, msg))
    /\ UNCHANGED <<store, stats, lastRefreshed, probe, authStore, retryRun>>

\* a handler that takes a failure without a response for an expired token
AfterNoResponse_EnteringRefresh(f, timeout) ==
    [f EXCEPT !.timeout = timeout, !.retry = TRUE, !.pc = "getRefreshToken"]

\* a handler that ends the session on a failure without a response
AfterNoResponse_ClearingTokens(f, timeout) ==
    [f EXCEPT !.timeout = timeout, !.pc = "clearAccess"]

\* the handler of a failure without a response awaits the oracle
AfterNoResponse(f, timeout) == [f EXCEPT !.timeout = timeout, !.pc = "isConnected"]

\* no response at all: the handler asks the connectivity oracle
RespondNothing(c) ==
    /\ At(c, "sent")
    /\ \E code \in TransportCodes, mentionsTimeout \in BOOLEAN :
         stack' = SetTop(c, AfterNoResponse([Top(c) EXCEPT !.seen = Null],
                                            IsTimeoutSignal(code, mentionsTimeout)))
    /\ hist' = [hist EXCEPT ![c] = Logged(@, 0, NoMsg)]
    /\ UNCHANGED <<store, result, stats, lastRefreshed, probe, authStore, retryRun>>

\* networkService.isConnected() has answered (or thrown)
IsConnected(c) ==
    /\ At(c, "isConnected")
    /\ \E throws \in BOOLEAN, state \in NetInfoStates :
         LET oracle == OracleAnswer(throws, state)
         IN Finish(c, Failure(ClassifyNoResponse(oracle, Top(c).timeout)),
                   [hist[c] EXCEPT !.oracle = oracle, !.timeout = Top(c).timeout])
    /\ UNCHANGED <<store, stats, lastRefreshed, probe, authStore, retryRun>>

\* the refresh token has been read; with one, the refresh call is posted
\* through the same axios instance
GetRefreshToken(c) ==
    /\ At(c, "getRefreshToken")
    /\ \E ok \in BOOLEAN :
         LET refreshToken == StorageGet("refresh_token", ok)
         IN IF Truthy(refreshToken)
            THEN /\ Len(stack[c]) < MaxDepth
                 /\ stack' = [stack EXCEPT ![c] =
                                 Append(SetTop(c, [Top(c) EXCEPT !.pc = "awaitRefresh"])[c],
                                        Frame(ProtocolRefreshUrl))]
                 /\ hist' = hist
            ELSE /\ stack' = SetTop(c, [Top(c) EXCEPT !.pc = "clearAccess"])
                 /\ hist' = [hist EXCEPT ![c].rout = "norefreshtoken"]
    /\ UNCHANGED <<store, result, stats, lastRefreshed, probe, authStore, retryRun>>

\* the new access token has been stored (or storing it threw); on success
\* the original request is re-issued with the new token
SetAccessToken(c) ==
    /\ At(c, "setToken")
    /\ \E ok \in BOOLEAN :
         LET f == Top(c)
         IN /\ store' = StorageSet("access_token", f.tok, ok)
            /\ IF ok
               THEN /\ stack' = SetTop(c, RetryFrame(f))
                    /\ hist' = [hist EXCEPT ![c].wrote = f.tok]
               ELSE /\ stack' = SetTop(c, [f EXCEPT !.pc = "catchAccess", !.tok = Null,
                                                    !.rerr = RawError])
                    /\ hist' = [hist EXCEPT ![c].rout = "setfailed"]
    /\ UNCHANGED <<result, stats, lastRefreshed, probe, authStore, retryRun>>

\* removals that name the access token key every time
RemovedKey_AlwaysAccessToken(pc) == "access_token"

\* the key each of the four removals of the 401 case removes
RemovedKey(pc) ==
    IF pc \in {"catchAccess", "clearAccess"} THEN "access_token" ELSE "refresh_token"

\* the removals a call has performed, in order
ClearedAfter(cleared, key) ==
    CASE key = "access_token" /\ cleared = "none" -> "access"
      [] key = "refresh_token" /\ cleared = "access" -> "both"
      [] OTHER -> cleared

\* the two removals of the catch block; an exception of a removal would
\* leave the handler
CatchRemove(c) ==
    /\ Running(c)
    /\ Top(c).pc \in {"catchAccess", "catchRefresh"}
    /\ \E ok \in BOOLEAN :
         LET f == Top(c)
             key == RemovedKey(f.pc)
         IN /\ store' = StorageRemove(key, ok)
            /\ IF RemoveRaises(ok)
               THEN Finish(c, Failure(RawError), hist[c])
               ELSE /\ stack' = SetTop(c, [f EXCEPT !.pc = IF f.pc = "catchAccess"
                                                           THEN "catchRefresh"
                                                           ELSE "clearAccess"])
                    /\ hist' = [hist EXCEPT ![c].cleared = ClearedAfter(@, key)]
                    /\ result' = result
    /\ UNCHANGED <<stats, lastRefreshed, probe, authStore, retryRun>>

\* the removals that end the 401 case, and its throw
ClearAndThrow(c) ==
    /\ Running(c)
    /\ Top(c).pc \in {"clearAccess", "clearRefresh"}
    /\ \E ok \in BOOLEAN :
         LET f == Top(c)
             key == RemovedKey(f.pc)
             h == [hist[c] EXCEPT !.cleared = ClearedAfter(@, key)]
         IN /\ store' = StorageRemove(key, ok)
            /\ IF RemoveRaises(ok)
               THEN Finish(c, Failure(RawError), hist[c])
               ELSE IF f.pc = "clearAccess"
               THEN /\ stack' = SetTop(c, [f EXCEPT !.pc = "clearRefresh"])
                    /\ hist' = [hist EXCEPT ![c] = h]
                    /\ result' = result
               ELSE Finish(c, Failure(ThrownUnauthorized(f)), h)
    /\ UNCHANGED <<stats, lastRefreshed, probe, authStore, retryRun>>

Next ==
    \E c \in Calls :
        \/ RequestInterceptor(c)
        \/ RespondSuccess(c)
        \/ RespondStatus(c)
        \/ RespondNothing(c)
        \/ IsConnected(c)
        \/ GetRefreshToken(c)
        \/ SetAccessToken(c)
        \/ CatchRemove(c)
        \/ ClearAndThrow(c)

Spec == Init /\ [][Next]_vars

\* the steps of one logical call
CallStep(c) ==
    \/ RequestInterceptor(c)
    \/ RespondSuccess(c)
    \/ RespondStatus(c)
    \/ RespondNothing(c)
    \/ IsConnected(c)
    \/ GetRefreshToken(c)
    \/ SetAccessToken(c)
    \/ CatchRemove(c)
    \/ ClearAndThrow(c)

\* every transmission is eventually answered or fails, and every operation
\* of the Token Store and of the connectivity oracle returns: a call that
\* can take a step eventually takes one
\* the calls whose termination is checked: any call, running beside a
\* call to the login or the refresh endpoint
FairInit ==
    /\ Init
    /\ hist["B"].url \in {LoginUrl, RepoRefreshUrl}

FairSpec == FairInit /\ [][Next]_vars /\ \A c \in Calls : WF_vars(CallStep(c))

----------------------------------------------------------------------------
(* The session: the auth store's initialize() and logout() running beside  *)
(* a logical call of the pipeline                                          *)

pipeline == <<stack, result, stats, hist, lastRefreshed, probe, retryRun>>

\* the store holds a session or none; one logical call is in flight; the
\* auth store is as created or as the persist middleware restored it
SessionInit ==
    /\ store \in {[access_token |-> OldToken, refresh_token |-> SessionRefreshToken],
                  [access_token |-> Null, refresh_token |-> Null]}
    /\ \E url \in CallUrls :
         /\ stack = [c \in Calls |-> IF c = "A" THEN <<Frame(url)>> ELSE <<>>]
         /\ hist = [c \in Calls |-> NoHist(url)]
    /\ result = [c \in Calls |-> NoResult]
    /\ stats = [c \in Calls |-> NoStats]
    /\ lastRefreshed = Null
    /\ probe = NoProbe
    /\ authStore \in AuthStates
    /\ retryRun = NoRun

\* initialize() is called: set({isLoading: true}) and the first read
InitializeStart ==
    /\ authStore.initialize = "idle"
    /\ authStore' = [authStore EXCEPT !.initialize = "getAccess", !.isLoading = TRUE]
    /\ UNCHANGED <<store, pipeline>>

\* the catch block and the finally block of initialize()
InitializeCaught(a) ==
    [a EXCEPT !.isAuthenticated = FALSE, !.isInitialized = TRUE,
              !.isLoading = FALSE, !.initialize = "done"]

\* the access token has been read; the refresh token is read next
InitializeGetAccess ==
    /\ authStore.initialize = "getAccess"
    /\ \E ok \in BOOLEAN :
         LET accessToken == StorageGet("access_token", ok)
         IN authStore' = IF accessToken = Thrown
                         THEN InitializeCaught(authStore)
                         ELSE [authStore EXCEPT !.accessToken = accessToken,
                                                !.initialize = "getRefresh"]
    /\ UNCHANGED <<store, pipeline>>

\* the refresh token has been read: the state is set from the two values
\* read, and the finally block resets isLoading
InitializeGetRefresh ==
    /\ authStore.initialize = "getRefresh"
    /\ \E ok \in BOOLEAN :
         LET refreshToken == StorageGet("refresh_token", ok)
         IN authStore' =
               IF refreshToken = Thrown
               THEN InitializeCaught(authStore)
               ELSE [authStore EXCEPT
                        !.refreshToken = refreshToken,
                        !.isAuthenticated = TokensExist(authStore.accessToken,
                                                        refreshToken),
                        !.isInitialized = TRUE,
                        !.isLoading = FALSE,
                        !.initialize = "done"]
    /\ UNCHANGED <<store, pipeline>>

\* logout() is called: set({isLoading: true}) and the first removal
LogoutStart ==
    /\ authStore.logout = "idle"
    /\ authStore' = [authStore EXCEPT !.logout = "removeAccess", !.isLoading = TRUE]
    /\ UNCHANGED <<store, pipeline>>

\* the removal of the access token, then of the refresh token, has
\* returned; an exception of a removal would end logout() in its catch
\* block, which only logs
LogoutRemove ==
    /\ authStore.logout \in {"removeAccess", "removeRefresh"}
    /\ \E ok \in BOOLEAN :
         /\ store' = StorageRemove(IF authStore.logout = "removeAccess"
                                   THEN "access_token" ELSE "refresh_token", ok)
         /\ authStore' = [authStore EXCEPT !.logout =
                             IF RemoveRaises(ok) THEN "done"
                             ELSE IF @ = "removeAccess" THEN "removeRefresh"
                             ELSE "removeUserId"]
    /\ UNCHANGED pipeline

\* the removal of the user id has returned: the persisted user data is
\* removed from the plain storage and the state is reset
LogoutReset ==
    /\ authStore.logout = "removeUserId"
    /\ authStore' = [authStore EXCEPT !.isAuthenticated = FALSE, !.user = Null,
                                      !.isLoading = FALSE, !.logout = "done"]
    /\ UNCHANGED <<store, pipeline>>

SessionNext ==
    \/ \E c \in Calls : CallStep(c)
    \/ InitializeStart
    \/ InitializeGetAccess
    \/ InitializeGetRefresh
    \/ LogoutStart
    \/ LogoutRemove
    \/ LogoutReset

SessionSpec == SessionInit /\ [][SessionNext]_vars

----------------------------------------------------------------------------
(* retry(fn, options): the loop of the retry utility, one step per await   *)

\* retry() has been called and has invoked fn for the first time
RetryInit ==
    /\ store = [access_token |-> Null, refresh_token |-> Null]
    /\ stack = [c \in Calls |-> <<>>]
    /\ hist = [c \in Calls |-> NoHist(ResourceUrl)]
    /\ result = [c \in Calls |-> NoResult]
    /\ stats = [c \in Calls |-> NoStats]
    /\ lastRefreshed = Null
    /\ probe = NoProbe
    /\ authStore = NoSession
    /\ \E options \in RetryOptions :
         LET o == WithDefaults(options)
         IN retryRun = [NoRun EXCEPT !.phase = "attempt", !.options = o,
                                     !.delay = FirstDelay(o), !.calls = 1]

\* the promise of fn settles: retry returns its value, or keeps its error
\* and either sleeps before the next attempt or, after the last attempt,
\* throws lastError
RetryAttempt ==
    /\ retryRun.phase = "attempt"
    /\ \E ok \in BOOLEAN :
         LET r == retryRun
         IN retryRun' =
               IF ok
               THEN [r EXCEPT !.phase = "returned", !.settled = r.calls]
               ELSE IF r.attempt < r.options.maxRetries
               THEN [r EXCEPT !.phase = "sleeping", !.lastError = r.calls,
                              !.waits = Append(@, r.delay)]
               ELSE [r EXCEPT !.phase = "raised", !.lastError = r.calls,
                              !.settled = r.calls, !.attempt = @ + 1]
    /\ UNCHANGED <<store, stack, result, stats, hist, lastRefreshed, probe, authStore>>

\* sleep(delay) is over: the delay grows, and fn is invoked again
RetrySleep ==
    /\ retryRun.phase = "sleeping"
    /\ retryRun' = [retryRun EXCEPT !.phase = "attempt",
                                    !.delay = NextDelay(@, retryRun.options),
                                    !.attempt = @ + 1,
                                    !.calls = @ + 1]
    /\ UNCHANGED <<store, stack, result, stats, hist, lastRefreshed, probe, authStore>>

RetryNext == RetryAttempt \/ RetrySleep

RetrySpec == RetryInit /\ [][RetryNext]_vars

TypeOK ==
    /\ store.access_token \in {Null, OldToken} \cup IssuedTokens
    /\ store.refresh_token \in {Null, SessionRefreshToken}
    /\ \A c \in Calls : Len(stack[c]) <= MaxDepth

----------------------------------------------------------------------------
(* Properties *)

Done(c) == ~Running(c) /\ result[c].kind # "none"

Raised(c, code) == Done(c) /\ result[c].kind = "err" /\ result[c].error.code = code

\* the call's refresh succeeded, its retry was issued, and the retry was
\* answered 401
RetryGot401(c) ==
    /\ hist[c].wrote # Null
    /\ Len(hist[c].log) >= 3
    /\ hist[c].log[3] = 401

\* C1: a call whose original transmission got 401 and whose retry, issued
\* after a successful refresh, got 401 again has issued exactly one refresh
\* call and one retry: the second 401 finds the retry marker set, goes
\* straight to the clearing of the tokens without a further refresh, and
\* is raised to the caller as UnauthorizedError.
C1_RefreshOnce ==
    \A c \in Calls :
        RetryGot401(c) =>
            /\ hist[c].log[1] = 401 /\ hist[c].log[2] = 200 /\ Len(hist[c].log) = 3
            /\ stats[c].refresh = 1
            /\ stats[c].retry = 1
            /\ Running(c) =>
                  /\ Len(stack[c]) = 1
                  /\ Top(c).retry
                  /\ Top(c).pc \in {"clearAccess", "clearRefresh"}
            /\ ~Running(c) => Raised(c, "UNAUTHORIZED")

C1_Witness ==
    \E c \in Calls : RetryGot401(c) /\ Raised(c, "UNAUTHORIZED") /\ stats[c].refresh = 1

\* the two tokens are both present or both absent
TokenPair == (store.access_token = Null) <=> (store.refresh_token = Null)

\* C2: in every reachable state of the Token Store, whatever the
\* interleaving of the calls running the refresh protocol, the access token
\* and the refresh token are present together or absent together.
C2_TokenPairAlways == TokenPair

\* the refresh call of c failed and c is on, or through, the failure path
RefreshFailed(c) == hist[c].rout = "failed"

OnFailurePath(c) ==
    /\ Running(c)
    /\ Len(stack[c]) = 1
    /\ Top(c).pc \in {"catchAccess", "catchRefresh", "clearAccess", "clearRefresh"}

\* the step in which call c raises its error to the caller
Raises(c) == Running(c) /\ ~Running(c)'

\* C3: a call whose refresh failed never sees the store with one token
\* cleared and the other still there while it is on the failure path, and
\* at the step in which it raises UnauthorizedError both tokens are absent.
C3_FailedRefreshLeavesNoToken ==
    /\ [](\A c \in Calls : RefreshFailed(c) /\ OnFailurePath(c) => TokenPair)
    /\ [][\A c \in Calls :
            RefreshFailed(c) /\ Raises(c) =>
                store'.access_token = Null /\ store'.refresh_token = Null]_vars

\* the call's refresh call was answered with a new access token, the token
\* was stored, and the re-issued call was answered with a success
RefreshedAndRetried(c) ==
    /\ Done(c)
    /\ hist[c].url = ResourceUrl
    /\ hist[c].wrote # Null
    /\ hist[c].log = <<401, 200, 200>>

\* the headers that carry a token stored by a call other than c
StoredByOthers(c) ==
    {Bearer(hist[d].wrote) : d \in {e \in Calls \ {c} : hist[e].wrote # Null}}

\* C4 as stated: a call on a non-auth endpoint that got 401, whose refresh
\* token the server accepted and whose re-issued call succeeded, made one
\* refresh call, stored the new token, re-issued the call once carrying
\* that new token, and resolves without error.
C4_RetryCarriesOwnNewToken ==
    \A c \in Calls :
        RefreshedAndRetried(c) =>
            /\ stats[c].refresh = 1
            /\ stats[c].retry = 1
            /\ result[c].kind = "ok"
            /\ hist[c].retryAuth = Bearer(hist[c].wrote)

\* C4 (amended): such a call made exactly one refresh call, stored the new
\* token, re-issued the call exactly once (three transmissions in all) and
\* resolves without error; its retry carries the new token, or the token a
\* concurrent call's refresh stored before the retry was decorated.
C4_TransparentRefreshAndRetry ==
    \A c \in Calls :
        RefreshedAndRetried(c) =>
            /\ stats[c].refresh = 1
            /\ stats[c].retry = 1
            /\ stats[c].trans = 3
            /\ hist[c].rout = "ok"
            /\ hist[c].wrote \in IssuedTokens
            /\ result[c] = [kind |-> "ok", error |-> NoError]
            /\ hist[c].retryAuth \in {Bearer(hist[c].wrote)} \cup StoredByOthers(c)

C4_Witness ==
    \E c \in Calls :
        /\ RefreshedAndRetried(c)
        /\ result[c].kind = "ok"
        /\ hist[c].retryAuth = Bearer(hist[c].wrote)
        /\ store.access_token = hist[c].wrote

HandlerPcsWithoutRefresh == {"req", "sent", "isConnected", "clearAccess", "clearRefresh"}

\* C5: a call to the login or the refresh endpoint never issues a refresh
\* call or a retry, and its 401 is raised as UnauthorizedError; the refresh
\* call the protocol posts is the innermost request of its call, is never
\* itself refreshed or retried, and its 401 reaches the awaiting handler as
\* UnauthorizedError.
C5_NoRefreshForAuthEndpoints ==
    \A c \in Calls :
        /\ hist[c].url \in {LoginUrl, RepoRefreshUrl} =>
              /\ stats[c].refresh = 0
              /\ stats[c].retry = 0
              /\ Len(stack[c]) <= 1
              /\ Running(c) => ~Top(c).retry /\ Top(c).pc \in HandlerPcsWithoutRefresh
              /\ Done(c) /\ hist[c].log = <<401>> => Raised(c, "UNAUTHORIZED")
        /\ \A i \in 1..Len(stack[c]) :
              stack[c][i].url = ProtocolRefreshUrl =>
                  /\ i = Len(stack[c])
                  /\ ~stack[c][i].retry
                  /\ stack[c][i].pc \in HandlerPcsWithoutRefresh
        /\ stats[c].refresh <= 1
        /\ hist[c].rout = "failed" /\ hist[c].log[2] = 401 => hist[c].rcode = "UNAUTHORIZED"

C5_Witness ==
    \E c, d \in Calls :
        /\ hist[c].url = LoginUrl /\ hist[c].log = <<401>> /\ Raised(c, "UNAUTHORIZED")
        /\ hist[d].rout = "failed" /\ hist[d].log = <<401, 401>>
        /\ hist[d].rcode = "UNAUTHORIZED"

\* the refresh of call c failed: the refresh call, or the storing of the
\* token it returned
RefreshAttemptFailed(c) == hist[c].rout \in {"failed", "setfailed"}

\* C6: whenever the refresh call fails, or storing the new token throws,
\* the call issues no retry, removes the access token and then the refresh
\* token, and raises UnauthorizedError with status 401 built from the body
\* of the original 401 response, never the error of the refresh call.
C6_FailedRefreshRaisesUnauthorized ==
    \A c \in Calls :
        RefreshAttemptFailed(c) =>
            /\ stats[c].retry = 0
            /\ stats[c].refresh = 1
            /\ Done(c) =>
                  /\ hist[c].cleared = "both"
                  /\ Raised(c, "UNAUTHORIZED")
                  /\ result[c].error.statusCode = 401
                  /\ result[c].error.data = hist[c].msg

C6_Witness ==
    \E c, d \in Calls :
        /\ hist[c].rout = "failed" /\ hist[c].rcode = "NETWORK_ERROR"
        /\ Raised(c, "UNAUTHORIZED") /\ hist[c].cleared = "both"
        /\ hist[d].rout = "setfailed"
        /\ Raised(d, "UNAUTHORIZED") /\ hist[d].cleared = "both"

\* C7 as stated: the error raised after a failed refresh carries the fixed
\* message, whatever the bodies of the refresh response and of the original
\* 401 response say.
C7_FixedMessage ==
    \A c \in Calls :
        RefreshAttemptFailed(c) /\ Done(c) =>
            result[c].error.message = "Unauthorized. Please login again."

\* C7 (amended): the error raised after a failed refresh carries the message
\* of the body of the original 401 response when that body has one, and the
\* fixed "Unauthorized. Please login again." otherwise; the body of the
\* refresh response has no influence on it.
C7_MessageOfOriginalResponse ==
    \A c \in Calls :
        RefreshAttemptFailed(c) /\ Done(c) =>
            /\ result[c].error.message =
                  OrElse(hist[c].msg, "Unauthorized. Please login again.")
            /\ result[c].error.message # RefreshServerMsg

C7_Witness ==
    \E c, d \in Calls :
        /\ RefreshAttemptFailed(c) /\ Done(c)
        /\ hist[c].msg = NoMsg
        /\ result[c].error.message = "Unauthorized. Please login again."
        /\ RefreshAttemptFailed(d) /\ Done(d)
        /\ hist[d].msg = ServerMsg
        /\ result[d].error.message = ServerMsg

\* C8: a 401 that enters the refresh protocol and reads no refresh token
\* issues no refresh call and no retry: the call is transmitted once,
\* removes the access token and then the refresh token, and raises
\* UnauthorizedError.
C8_NoRefreshTokenIsTerminal ==
    \A c \in Calls :
        hist[c].rout = "norefreshtoken" =>
            /\ stats[c].refresh = 0
            /\ stats[c].retry = 0
            /\ stats[c].trans = 1
            /\ Len(stack[c]) <= 1
            /\ Running(c) => Top(c).pc \in {"clearAccess", "clearRefresh"}
            /\ Done(c) => Raised(c, "UNAUTHORIZED") /\ hist[c].cleared = "both"

C8_Witness ==
    \E c \in Calls :
        /\ hist[c].rout = "norefreshtoken"
        /\ Raised(c, "UNAUTHORIZED")
        /\ hist[c].cleared = "both"
        /\ stats[c].trans = 1

HasRefreshFrame(c) == \E i \in 1..Len(stack[c]) : stack[c][i].url = ProtocolRefreshUrl

\* C9: within one call the retry is issued only after the refresh call has
\* been answered and the new token has been stored; while the refresh call
\* is pending the handler that posted it only waits, and no retry of that
\* call is decorated or in flight.
C9_RefreshCompletesBeforeRetry ==
    \A c \in Calls :
        /\ stats[c].retry >= 1 =>
              /\ hist[c].rout = "ok"
              /\ hist[c].wrote # Null
              /\ Len(hist[c].log) >= 2
              /\ hist[c].log[1] = 401 /\ hist[c].log[2] = 200
              /\ ~HasRefreshFrame(c)
        /\ \A i \in 1..Len(stack[c]) :
              stack[c][i].retry /\ stack[c][i].pc \in {"req", "sent"} =>
                  /\ hist[c].wrote # Null
                  /\ ~HasRefreshFrame(c)
        /\ HasRefreshFrame(c) =>
              /\ Len(stack[c]) = 2
              /\ stack[c][1].pc = "awaitRefresh"
              /\ stats[c].retry = 0

C9_Witness ==
    \E c \in Calls :
        /\ At(c, "sent") /\ Top(c).retry
        /\ hist[c].wrote # Null
        /\ store.access_token = hist[c].wrote

\* the step in which the request interceptor of call c decorates a request
Decorates(c) == At(c, "req") /\ Running(c)' /\ stack'[c][Len(stack'[c])].pc = "sent"

\* C10 as stated: whenever the store holds an access token when a request
\* is decorated, the transmitted Authorization header is Bearer of that
\* token; when it holds none, a descriptor without the header stays so.
C10_HeaderFromStore ==
    [][\A c \in Calls :
          Decorates(c) =>
              LET sent == stack'[c][Len(stack'[c])]
              IN /\ store.access_token # Null => sent.auth = Bearer(store.access_token)
                 /\ store.access_token = Null /\ Top(c).auth = NoHeader =>
                       sent.auth = NoHeader]_vars

\* C10 (amended): every decoration reads the store anew; when the read
\* gives a token, the transmitted header is Bearer of the token the store
\* holds at that moment, whatever header the descriptor had; when the read
\* gives none (the store holds none, or the read failed) the header is
\* left as it was, so a descriptor without one is sent without one.
C10_HeaderFromFreshRead ==
    [][\A c \in Calls :
          Decorates(c) =>
              LET sent == stack'[c][Len(stack'[c])]
              IN /\ sent.seen \in {Null, store.access_token}
                 /\ Truthy(sent.seen) => sent.auth = Bearer(store.access_token)
                 /\ ~Truthy(sent.seen) => sent.auth = Top(c).auth
                 /\ store.access_token = Null => sent.auth = Top(c).auth]_vars

C10_Witness ==
    \E c \in Calls :
        /\ At(c, "sent") /\ Top(c).retry
        /\ Truthy(Top(c).seen)
        /\ Top(c).auth = Bearer(Top(c).seen)
        /\ Top(c).seen # hist[c].wrote

\* the last transmission of call c got no response and the oracle has
\* answered: the original call or the retry, or the refresh call
OuterNoResponse(c) ==
    /\ Done(c)
    /\ Len(hist[c].log) \in {1, 3}
    /\ hist[c].log[Len(hist[c].log)] = 0

RefreshNoResponse(c) ==
    /\ Len(hist[c].log) = 2
    /\ hist[c].log[2] = 0
    /\ hist[c].oracle # "none"

\* C11: a failure without a response is classified by the answer of the
\* connectivity oracle first: offline gives NetworkError "No internet
\* connection..." also when the transport signal is a timeout; online gives
\* TimeoutError when the signal is a timeout and the generic NetworkError
\* otherwise; the error carries no status.  It holds for the original
\* call, the retry and the refresh call alike.
C11_OracleBeforeTimeout ==
    \A c \in Calls :
        /\ OuterNoResponse(c) =>
              /\ hist[c].oracle = "offline" =>
                    result[c].error = NetworkError(
                        "No internet connection. Please check your network settings.")
              /\ hist[c].oracle = "online" /\ hist[c].timeout =>
                    result[c].error = TimeoutError("Request timeout. Please try again.")
              /\ hist[c].oracle = "online" /\ ~hist[c].timeout =>
                    result[c].error =
                        NetworkError("Network error occurred. Please try again.")
              /\ result[c].error.statusCode = 0
        /\ RefreshNoResponse(c) =>
              /\ hist[c].oracle = "offline" => hist[c].rcode = "NETWORK_ERROR"
              /\ hist[c].oracle = "online" /\ hist[c].timeout =>
                    hist[c].rcode = "TIMEOUT_ERROR"
              /\ hist[c].oracle = "online" /\ ~hist[c].timeout =>
                    hist[c].rcode = "NETWORK_ERROR"

C11_Witness ==
    \E c, d \in Calls :
        /\ OuterNoResponse(c) /\ hist[c].oracle = "offline" /\ hist[c].timeout
        /\ Raised(c, "NETWORK_ERROR")
        /\ OuterNoResponse(d) /\ hist[d].oracle = "online" /\ hist[d].timeout
        /\ Raised(d, "TIMEOUT_ERROR")


\* the original transmission of call c got no response
FailedWithoutResponse(c) == Len(hist[c].log) >= 1 /\ hist[c].log[1] = 0

\* C12: a call whose transmission got no response is transmitted once,
\* issues no refresh call and no retry, and neither writes nor removes a
\* token: the steps it takes leave the Token Store as it is; when the
\* oracle reports offline the caller receives NetworkError with the
\* message "No internet connection. Please check your network settings."
C12_NoResponseTouchesNothing ==
    /\ [](\A c \in Calls :
            FailedWithoutResponse(c) =>
                /\ hist[c].log = <<0>>
                /\ stats[c] = [trans |-> 1, refresh |-> 0, retry |-> 0]
                /\ hist[c].cleared = "none"
                /\ hist[c].wrote = Null
                /\ Running(c) => Len(stack[c]) = 1 /\ Top(c).pc = "isConnected"
                /\ Done(c) /\ hist[c].oracle = "offline" =>
                      /\ Raised(c, "NETWORK_ERROR")
                      /\ result[c].error.message =
                            "No internet connection. Please check your network settings.")
    /\ [][\A c \in Calls :
            FailedWithoutResponse(c)' /\ stack'[c] # stack[c] => store' = store]_vars

C12_Witness ==
    \E c \in Calls :
        /\ FailedWithoutResponse(c)
        /\ hist[c].oracle = "offline"
        /\ Raised(c, "NETWORK_ERROR")
        /\ store = [access_token |-> OldToken, refresh_token |-> SessionRefreshToken]


Classified == probe.stage = "response" /\ probe.step >= 1

\* C13: the error a received non-401 status is classified as depends on
\* the status alone: 403 gives FORBIDDEN with statusCode 403, 404 gives
\* NOT_FOUND with 404, 400 and 422 both give VALIDATION_ERROR with
\* statusCode 400 and the body of the response as data, 500, 502, 503 and
\* 504 give SERVER_ERROR with the status, every other status gives
\* UNKNOWN_ERROR with the status; classifying the same response again
\* gives the same code and statusCode.
C13_ClassificationByStatus ==
    Classified =>
        LET e == probe.thrown
            status == probe.status
        IN /\ status = 403 => e.code = "FORBIDDEN" /\ e.statusCode = 403
           /\ status = 404 => e.code = "NOT_FOUND" /\ e.statusCode = 404
           /\ status \in {400, 422} =>
                 e.code = "VALIDATION_ERROR" /\ e.statusCode = 400 /\ e.data = probe.data
           /\ status \in {500, 502, 503, 504} =>
                 e.code = "SERVER_ERROR" /\ e.statusCode = status
           /\ status \notin {400, 403, 404, 422, 500, 502, 503, 504} =>
                 e.code = "UNKNOWN_ERROR" /\ e.statusCode = status
           /\ probe.step = 2 =>
                 probe.again.code = e.code /\ probe.again.statusCode = e.statusCode

C13_Witness ==
    /\ probe.stage = "response" /\ probe.step = 2
    /\ probe.status = 422 /\ probe.data = ValidationBody
    /\ probe.thrown = ValidationError("reason is required", ValidationBody)
    /\ probe.again = probe.thrown


\* C14: whatever a repository method raises to its caller is an ApiError
\* with one of the eight codes of ApiErrorCode, never the exception of a
\* collaborator as it was thrown: an error the response handler built is
\* passed on as it is, anything else (the connectivity oracle throwing
\* inside the handler) reaches the caller as UNKNOWN_ERROR.
C14_OnlyTaxonomyErrorsSurface ==
    \A c \in Calls :
        /\ result[c].kind = "err" =>
              /\ result[c].error.code \in ApiErrorCode
              /\ result[c].error # RawError
              /\ hist[c].oracle = "throws" /\ OuterNoResponse(c) =>
                    result[c].error =
                        ApiError("UNKNOWN_ERROR", "An unexpected error occurred", 0, NoMsg)
        /\ result[c].kind = "ok" => result[c].error = NoError

C14_Witness ==
    \E c, d \in Calls :
        /\ OuterNoResponse(c) /\ hist[c].oracle = "throws" /\ Raised(c, "UNKNOWN_ERROR")
        /\ hist[d].rout = "setfailed" /\ Raised(d, "UNAUTHORIZED")


\* the login call of c has resolved with its success envelope
LoginResolved(c) == hist[c].url = LoginUrl /\ Done(c) /\ result[c].kind = "ok"

\* C15: once login() has resolved with {success: true, data: {accessToken,
\* refreshToken, user}}, the Token Store holds an access token and a
\* refresh token.
C15_LoginStoresTokens ==
    \A c \in Calls :
        LoginResolved(c) => store.access_token # Null /\ store.refresh_token # Null


\* call c is in FAILED_TERMINAL as the protocol defines it: its 401 found
\* no refresh token, or its refresh failed (the refresh call, the missing
\* token in its response, or the storing of the token)
FailedTerminal(c) ==
    \/ hist[c].rout \in {"norefreshtoken", "failed", "notoken", "setfailed"}
    \/ Len(hist[c].log) = 2 /\ hist[c].log[2] = 401

\* call c got a 401 that the guard keeps out of the refresh protocol: on
\* the login or the refresh endpoint, or on its retry
ExemptUnauthorized(c) ==
    \/ hist[c].url \in {LoginUrl, RepoRefreshUrl} /\ hist[c].log = <<401>>
    \/ RetryGot401(c)

\* the step in which call c performs one of the removals of the 401 case
Removes(c) ==
    /\ Running(c)
    /\ Top(c).pc \in {"catchAccess", "catchRefresh", "clearAccess", "clearRefresh"}
    /\ stack'[c] # stack[c]

\* C16 as stated: a call removes a token from the Token Store only when it
\* has entered FAILED_TERMINAL (no refresh token, or the refresh failing).
C16_ErasedOnlyInFailedTerminal ==
    \A c \in Calls : hist[c].cleared # "none" => FailedTerminal(c)

\* C16 (amended): a call removes tokens only after one of its transmissions
\* was answered 401 and that 401 did not lead to a retry: it entered
\* FAILED_TERMINAL, or the 401 came on the login or refresh endpoint, or on
\* the retry after a successful refresh.  Every step that removes a token
\* is taken by such a call, and a call with none of these removes nothing.
C16_ErasedOnlyOnUnretried401 ==
    /\ [](\A c \in Calls :
            /\ hist[c].cleared # "none" =>
                  /\ FailedTerminal(c) \/ ExemptUnauthorized(c)
                  /\ \E i \in 1..Len(hist[c].log) : hist[c].log[i] = 401
            /\ ExemptUnauthorized(c) /\ Done(c) =>
                  hist[c].cleared = "both" /\ Raised(c, "UNAUTHORIZED"))
    /\ [][\A key \in {"access_token", "refresh_token"} :
            store[key] # Null /\ store'[key] = Null =>
                \E c \in Calls :
                    /\ Removes(c)
                    /\ FailedTerminal(c) \/ ExemptUnauthorized(c)]_vars

C16_Witness ==
    \E c, d \in Calls :
        /\ hist[c].url = LoginUrl /\ hist[c].log = <<401>>
        /\ hist[c].cleared = "both" /\ Done(c) /\ ~FailedTerminal(c)
        /\ RetryGot401(d) /\ hist[d].cleared = "both" /\ Done(d) /\ ~FailedTerminal(d)
        /\ store = [access_token |-> Null, refresh_token |-> Null]


\* every call has finished, and the refresh of every call succeeded: its
\* refresh call was answered with a new access token, which it stored
AllRefreshedAndFinished == \A c \in Calls : Done(c) /\ hist[c].rout = "ok"

\* C17 as stated: calls that get 401 concurrently each issue their own
\* refresh call, and when all their refreshes succeeded the access token in
\* the store once all have finished is the one of the refresh response
\* that arrived last.
C17_LastRefreshResponseWins ==
    AllRefreshedAndFinished =>
        /\ \A c \in Calls : stats[c].refresh = 1
        /\ store.access_token = lastRefreshed

\* C17 (amended): every call whose 401 found a refresh token issues exactly
\* one refresh call of its own, whatever the other calls do; the access
\* token only ever changes to the token a call got from its own refresh
\* response, at the step in which that call's store completes, and every
\* completed store leaves its token in the store; so when all refreshes
\* succeeded and no call has removed tokens (no retry was answered 401),
\* the token left at the end is the one of the store that completed last,
\* one of the tokens the refresh responses carried.
C17_LastCompletedStoreWins ==
    /\ [](/\ \A c \in Calls :
                hist[c].rout \in {"ok", "failed", "notoken", "setfailed"} =>
                    stats[c].refresh = 1
          /\ AllRefreshedAndFinished /\ (\A c \in Calls : hist[c].cleared = "none") =>
                /\ store.access_token \in {hist[c].wrote : c \in Calls}
                /\ store.access_token \in IssuedTokens)
    /\ [][/\ store'.access_token # store.access_token /\ store'.access_token # Null =>
                \E c \in Calls :
                    /\ At(c, "setToken")
                    /\ store'.access_token = Top(c).tok
                    /\ hist'[c].wrote = Top(c).tok
          /\ \A c \in Calls :
                hist'[c].wrote # hist[c].wrote => store'.access_token = hist'[c].wrote]_vars

C17_Witness ==
    /\ AllRefreshedAndFinished
    /\ \A c \in Calls : stats[c].refresh = 1 /\ hist[c].cleared = "none"
    /\ \A c, d \in Calls : c # d => hist[c].wrote # hist[d].wrote
    /\ store.access_token = lastRefreshed


\* the headers that carry a token some call got from its refresh response
\* and stored
RefreshedHeaders == {Bearer(hist[d].wrote) : d \in {e \in Calls : hist[e].wrote # Null}}

\* C18: under every interleaving, a retried call that has been decorated
\* for transmission carries the Authorization header of a token that a
\* successful refresh response issued (its own, or one a concurrent call
\* stored); it never carries the token of the original attempt and never
\* goes out without a header.
C18_RetryCarriesRefreshedToken ==
    \A c \in Calls :
        /\ \A i \in 1..Len(stack[c]) :
              stack[c][i].retry /\ stack[c][i].pc = "sent" =>
                  /\ stack[c][i].auth \in RefreshedHeaders
                  /\ stack[c][i].auth \in {Bearer(t) : t \in IssuedTokens}
                  /\ stack[c][i].auth \notin {NoHeader, Bearer(OldToken)}
        /\ stats[c].retry >= 1 =>
              /\ hist[c].retryAuth \in RefreshedHeaders
              /\ hist[c].retryAuth \notin {NoHeader, Bearer(OldToken)}

C18_Witness ==
    \E c \in Calls :
        /\ At(c, "sent") /\ Top(c).retry
        /\ store.access_token = Null
        /\ Top(c).seen = Null
        /\ Top(c).auth = Bearer(hist[c].wrote)


\* the original transmission of call c was answered with an error status
\* other than 401
FailedWithOtherStatus(c) ==
    /\ Len(hist[c].log) >= 1
    /\ hist[c].log[1] \in ErrStatuses \ {401}

\* C19: a call answered with an error status other than 401 is over with
\* that response: it was transmitted exactly once, has issued no refresh
\* call and no retry, has neither written nor removed a token, and raises
\* the error of its status; the step that handles the response leaves the
\* Token Store as it is.
C19_OtherStatusesNeverRetried ==
    /\ [](\A c \in Calls :
            FailedWithOtherStatus(c) =>
                /\ Len(hist[c].log) = 1
                /\ stats[c] = [trans |-> 1, refresh |-> 0, retry |-> 0]
                /\ hist[c].cleared = "none"
                /\ hist[c].wrote = Null
                /\ hist[c].rout = "none"
                /\ Done(c)
                /\ result[c].kind = "err"
                /\ result[c].error.code \in
                      {"FORBIDDEN", "NOT_FOUND", "VALIDATION_ERROR", "SERVER_ERROR",
                       "UNKNOWN_ERROR"})
    /\ [][\A c \in Calls :
            FailedWithOtherStatus(c)' /\ stack'[c] # stack[c] => store' = store]_vars

C19_Witness ==
    \E c, d \in Calls :
        /\ hist[c].log = <<404>> /\ Raised(c, "NOT_FOUND") /\ stats[c].trans = 1
        /\ hist[d].log = <<500>> /\ Raised(d, "SERVER_ERROR") /\ stats[d].trans = 1
        /\ store = [access_token |-> OldToken, refresh_token |-> SessionRefreshToken]


RequestDecorated == probe.stage = "request" /\ probe.step = 1

\* C20 as stated: the request stage never raises, also when the read of
\* the Token Store fails, and returns a descriptor with base endpoint and
\* timeout set: a missing one is the configured default, one the caller
\* supplied is kept.
C20_CallerValuesKept ==
    RequestDecorated =>
        /\ ~probe.raised
        /\ probe.sent.baseURL # Unset
        /\ probe.sent.timeout # NoTimeout
        /\ probe.sent.baseURL =
              IF probe.config.baseURL = Unset THEN ApiBaseUrl ELSE probe.config.baseURL
        /\ probe.sent.timeout =
              IF probe.config.timeout = NoTimeout THEN ApiTimeout ELSE probe.config.timeout

\* C20 (amended): the request stage never raises, also when the read of
\* the Token Store fails, and returns a descriptor with a non-empty base
\* endpoint and a non-zero timeout: an undefined or empty base endpoint and
\* an undefined or zero timeout are replaced by the configured default,
\* every other value of the caller is kept.
C20_FalsyValuesDefaulted ==
    RequestDecorated =>
        /\ ~probe.raised
        /\ probe.sent.baseURL \notin {Unset, ""}
        /\ probe.sent.timeout \notin {NoTimeout, 0}
        /\ probe.sent.baseURL =
              IF probe.config.baseURL \in {Unset, ""}
              THEN ApiBaseUrl ELSE probe.config.baseURL
        /\ probe.sent.timeout =
              IF probe.config.timeout \in {NoTimeout, 0}
              THEN ApiTimeout ELSE probe.config.timeout

C20_Witness ==
    /\ RequestDecorated
    /\ probe.config = NoConfig
    /\ store.access_token = OldToken
    /\ probe.sent = [baseURL |-> ApiBaseUrl, timeout |-> ApiTimeout, auth |-> NoHeader]
    /\ ~probe.raised


----------------------------------------------------------------------------
(* C21: the diagnostic log of the request stage never includes the access  *)
(* token: decorating the same descriptor with two different token values   *)
(* in the store logs the same content, with logging enabled or disabled.   *)
C21_LogIndependentOfToken ==
    (RequestDecorated /\ ~probe.raised /\ Truthy(probe.token)) =>
        /\ probe.logged = probe.loggedOther
        /\ \A i \in 1..Len(probe.logged) :
               probe.logged[i].headers # Bearer(probe.token)

----------------------------------------------------------------------------
\* call c is on the FAILED_TERMINAL path of the refresh protocol
InFailedTerminal(c) ==
    hist[c].rout \in {"norefreshtoken", "failed", "notoken", "setfailed"}

\* the step in which a removal of call c fails: the key is still there
RemovalFails(c) ==
    /\ Removes(c)
    /\ store[RemovedKey(Top(c).pc)] # Null
    /\ store' = store

\* the removal that follows each removal of the 401 case
NextRemoval(pc) ==
    CASE pc = "catchAccess" -> "catchRefresh"
      [] pc = "catchRefresh" -> "clearAccess"
      [] pc = "clearAccess" -> "clearRefresh"
      [] OTHER -> "none"

(* C22: clearing the tokens on the FAILED_TERMINAL path is best-effort: a  *)
(* removal that fails is swallowed - the handler goes on to the next       *)
(* removal exactly as after a successful one, and after the last one       *)
(* raises UnauthorizedError - so the call ends with both removals          *)
(* attempted and UnauthorizedError, never with the storage failure.        *)
C22_RemovalFailureSwallowed ==
    /\ [](\A c \in Calls :
            InFailedTerminal(c) /\ Done(c) =>
                hist[c].cleared = "both" /\ Raised(c, "UNAUTHORIZED"))
    /\ [][\A c \in Calls :
            RemovalFails(c) =>
                IF Top(c).pc = "clearRefresh"
                THEN IF Len(stack[c]) = 1
                     THEN /\ stack'[c] = <<>>
                          /\ result'[c].kind = "err"
                          /\ result'[c].error.code = "UNAUTHORIZED"
                     ELSE hist'[c].rcode = "UNAUTHORIZED"
                ELSE /\ Len(stack'[c]) = Len(stack[c])
                     /\ stack'[c][Len(stack'[c])].pc = NextRemoval(Top(c).pc)]_vars

\* a call on the FAILED_TERMINAL path ended with UnauthorizedError although
\* every one of its removals failed: both tokens are still in the store
C22_Witness ==
    \E c \in Calls :
        /\ hist[c].rout = "failed" /\ Done(c)
        /\ hist[c].cleared = "both" /\ Raised(c, "UNAUTHORIZED")
        /\ \A d \in Calls : hist[d].wrote = Null
        /\ store = [access_token |-> OldToken, refresh_token |-> SessionRefreshToken]

----------------------------------------------------------------------------
\* the refresh of call c succeeded and its retry failed with something
\* other than a 401: no response, or another error status
RetryFailedOtherwise(c) ==
    /\ hist[c].wrote # Null
    /\ Len(hist[c].log) = 3
    /\ hist[c].log[3] \notin {200, 401}

(* C23: the outcome of the retried call is the outcome of the operation:   *)
(* when the retry fails with a non-401 failure the caller receives that    *)
(* failure's own classification (by status, or by the oracle and the       *)
(* timeout signal when there was no response); it is not turned into       *)
(* UnauthorizedError and the call removes no token.                        *)
C23_RetryFailurePropagates ==
    \A c \in Calls :
        RetryFailedOtherwise(c) =>
            /\ hist[c].cleared = "none"
            /\ hist[c].rout = "ok"
            /\ Done(c) =>
                  /\ result[c].kind = "err"
                  /\ result[c].error.code # "UNAUTHORIZED"
                  /\ IF hist[c].log[3] = 0
                     THEN result[c].error =
                              handleError(ClassifyNoResponse(hist[c].oracle,
                                                             hist[c].timeout))
                     ELSE /\ result[c].error.code =
                                 ClassifyStatus(hist[c].log[3], NoMsg).code
                          /\ result[c].error.statusCode =
                                 ClassifyStatus(hist[c].log[3], NoMsg).statusCode

C23_Witness ==
    \E c, d \in Calls :
        /\ hist[c].log = <<401, 200, 500>> /\ Raised(c, "SERVER_ERROR")
        /\ hist[c].cleared = "none" /\ store.access_token = hist[c].wrote
        /\ hist[d].log = <<401, 200, 0>> /\ Raised(d, "TIMEOUT_ERROR")
        /\ hist[d].cleared = "none"

----------------------------------------------------------------------------
\* a repository helper has funnelled the error it caught
Funnelled == probe.stage = "repository" /\ probe.step = 1

(* C24: an error the response stage classified reaches the caller of a     *)
(* repository method unmodified - same code, statusCode, message and data  *)
(* - and only a failure that is not an ApiError is wrapped, as             *)
(* UNKNOWN_ERROR with no statusCode.                                       *)
C24_FunnelKeepsClassifiedErrors ==
    Funnelled =>
        IF probe.thrown.code \in ApiErrorCode
        THEN probe.again = probe.thrown
        ELSE /\ probe.again.code = "UNKNOWN_ERROR"
             /\ probe.again.statusCode = 0
             /\ probe.again.message = "An unexpected error occurred"

\* an UNKNOWN_ERROR of the response stage (status 418) went through the
\* funnel and kept its status
C24_Witness ==
    /\ Funnelled
    /\ probe.thrown.code = "UNKNOWN_ERROR" /\ probe.thrown.statusCode = 418
    /\ probe.again = probe.thrown

----------------------------------------------------------------------------
(* C25: when every transmission is eventually answered or fails and every  *)
(* operation of the Token Store and of the oracle returns, every logical   *)
(* call eventually completes, with a result or exactly one error, after at *)
(* most three transmissions (the original, one refresh, one retry); the    *)
(* refresh call's own failure starts no further refresh, so the handlers   *)
(* never nest deeper than the refresh call.                                *)
C25_CompletesWithinThreeTransmissions ==
    /\ \A c \in Calls : <>Done(c)
    /\ [](\A c \in Calls :
            /\ Len(hist[c].log) <= 3
            /\ stats[c].trans <= 3
            /\ stats[c].refresh <= 1
            /\ stats[c].retry <= 1
            /\ Len(stack[c]) <= 2
            /\ Done(c) => stats[c].trans = Len(hist[c].log))
    /\ [][\A c \in Calls : result[c].kind # "none" => result'[c] = result[c]]_vars

\* a call that needed all three transmissions has completed
C25_Witness ==
    \E c \in Calls :
        /\ Done(c)
        /\ stats[c].trans = 3 /\ stats[c].refresh = 1 /\ stats[c].retry = 1
        /\ Len(hist[c].log) = 3

----------------------------------------------------------------------------
\* the step in which the response stage of call c raises UnauthorizedError,
\* to the caller or to the handler awaiting the refresh call
RaisesUnauthorized(c) ==
    \/ /\ result[c].kind = "none"
       /\ result'[c].kind = "err"
       /\ result'[c].error.code = "UNAUTHORIZED"
    \/ /\ Running(c)
       /\ Len(stack'[c]) < Len(stack[c])
       /\ hist'[c].rcode = "UNAUTHORIZED"

(* C27: every UnauthorizedError of the response stage - after a failed     *)
(* refresh, a missing refresh token, a 401 on the login or refresh         *)
(* endpoint, or a 401 on the retry - is raised only after the same call    *)
(* issued a remove for the access token and then one for the refresh       *)
(* token: it is raised by the step that completes the refresh token        *)
(* removal, with the access token removal before it.                       *)
C27_UnauthorizedOnlyAfterRemovals ==
    /\ [](\A c \in Calls :
            /\ (Raised(c, "UNAUTHORIZED") \/ hist[c].rcode = "UNAUTHORIZED") =>
                   hist[c].cleared = "both"
            /\ At(c, "clearRefresh") => hist[c].cleared \in {"access", "both"})
    /\ [][\A c \in Calls :
            RaisesUnauthorized(c) =>
                /\ Removes(c)
                /\ Top(c).pc = "clearRefresh"
                /\ hist'[c].cleared = "both"]_vars

\* the four origins of UnauthorizedError, each raised with both removals done
C27_Witness ==
    \E c, d \in Calls :
        /\ Raised(c, "UNAUTHORIZED") /\ hist[c].cleared = "both"
        /\ Raised(d, "UNAUTHORIZED") /\ hist[d].cleared = "both"
        /\ \/ hist[c].rout = "failed" /\ hist[d].rout = "norefreshtoken"
           \/ hist[c].url = LoginUrl /\ hist[c].log = <<401>> /\ RetryGot401(d)

----------------------------------------------------------------------------
\* the refresh call of c was answered 2xx with a body without accessToken
RefreshWithoutToken(c) == hist[c].rout = "notoken"

(* C28: when the refresh call succeeds (2xx) but its body carries no       *)
(* accessToken, the protocol writes nothing to the Token Store and issues  *)
(* no retry: the call makes its two transmissions, removes the access      *)
(* token and then the refresh token, and the caller receives               *)
(* UnauthorizedError built from the original 401 response.                 *)
C28_RefreshWithoutTokenIsTerminal ==
    /\ [](\A c \in Calls :
            RefreshWithoutToken(c) =>
                /\ hist[c].log = <<401, 200>>
                /\ hist[c].wrote = Null
                /\ stats[c].retry = 0
                /\ stats[c].trans = 2
                /\ Running(c) => /\ Len(stack[c]) = 1
                                 /\ Top(c).pc \in {"clearAccess", "clearRefresh"}
                /\ Done(c) => /\ hist[c].cleared = "both"
                              /\ Raised(c, "UNAUTHORIZED")
                              /\ result[c].error.data = hist[c].msg)
    /\ [][\A c \in Calls :
            (RefreshWithoutToken(c) /\ stack'[c] # stack[c]) =>
                \A key \in {"access_token", "refresh_token"} :
                    store'[key] \in {store[key], Null}]_vars

C28_Witness ==
    \E c \in Calls :
        /\ RefreshWithoutToken(c) /\ Raised(c, "UNAUTHORIZED")
        /\ hist[c].cleared = "both" /\ hist[c].wrote = Null
        /\ store = [access_token |-> Null, refresh_token |-> Null]

----------------------------------------------------------------------------
\* logout() has completed and no logical call is in flight any more, nor
\* is initialize() under way
LoggedOutAndQuiet ==
    /\ authStore.logout = "done"
    /\ \A c \in Calls : ~Running(c)
    /\ authStore.initialize \in {"idle", "done"}

(* C26: logout erases the session credentials: once logout() has completed *)
(* and every logical call that was in flight has finished, neither the     *)
(* access token nor the refresh token is in the Token Store, and the auth  *)
(* state is isAuthenticated = false, user = null, isLoading = false.       *)
C26_LogoutErasesCredentials ==
    LoggedOutAndQuiet =>
        /\ store = [access_token |-> Null, refresh_token |-> Null]
        /\ ~authStore.isAuthenticated
        /\ authStore.user = Null
        /\ ~authStore.isLoading

----------------------------------------------------------------------------
\* the step in which initialize() finishes
InitializeFinishes ==
    authStore.initialize # "done" /\ authStore'.initialize = "done"

(* C29: initialize() always finishes with isInitialized = true and         *)
(* isLoading = false, and sets isAuthenticated = true exactly when both    *)
(* the access token and the refresh token were read as present; a failed   *)
(* read of the store is seen as an absent token, never as an exception,    *)
(* and yields isAuthenticated = false.                                     *)
C29_InitializeSetsFlagsFromTokens ==
    /\ [](authStore.initialize = "done" =>
            /\ authStore.isInitialized
            /\ authStore.accessToken # Thrown
            /\ authStore.refreshToken # Thrown)
    /\ [][InitializeFinishes =>
            /\ authStore'.isInitialized
            /\ ~authStore'.isLoading
            /\ authStore.initialize = "getRefresh"
            /\ authStore'.accessToken = authStore.accessToken
            /\ authStore'.refreshToken \in {Null, store.refresh_token}
            /\ authStore'.isAuthenticated =
                  (authStore'.accessToken # Null /\ authStore'.refreshToken # Null)]_vars

\* initialize() found both tokens and marked a fresh store authenticated
C29_Witness ==
    /\ authStore.initialize = "done"
    /\ authStore.isAuthenticated /\ authStore.isInitialized /\ ~authStore.isLoading
    /\ authStore.user = Null
    /\ authStore.accessToken = OldToken /\ authStore.refreshToken = SessionRefreshToken
    /\ authStore.logout = "idle"

----------------------------------------------------------------------------
\* invocations, outcome and waits of the retry utility, the cap on the delay
\* left aside
RetryRunsAsDocumented ==
    LET r == retryRun
        o == r.options
    IN r.phase # "none" =>
          /\ r.calls <= o.maxRetries + 1
          /\ r.phase = "returned" => r.settled = r.calls /\ r.lastError = r.calls - 1
          /\ r.phase = "raised" =>
                 /\ r.calls = o.maxRetries + 1
                 /\ r.settled = r.calls
                 /\ r.lastError = r.calls
          /\ Len(r.waits) = IF r.phase = "sleeping" THEN r.calls ELSE r.calls - 1
          /\ r.waits # <<>> => r.waits[1] = o.initialDelay
          /\ \A i \in 2..Len(r.waits) :
                 r.waits[i] = Min(r.waits[i - 1] * o.backoffMultiplier, o.maxDelay)

(* C30: the retry utility invokes the operation at most maxRetries + 1     *)
(* times, returns the value of the first successful attempt, raises the    *)
(* error of the last attempt when all fail, waits only between attempts,   *)
(* with a delay that starts at initialDelay, is multiplied by              *)
(* backoffMultiplier each time and never exceeds maxDelay.                 *)
C30_BoundedBackoff ==
    /\ RetryRunsAsDocumented
    /\ \A i \in 1..Len(retryRun.waits) :
           retryRun.waits[i] <= retryRun.options.maxDelay

====
